---- MODULE Spec2Model ----
(***************************************************************************)
(* Model of the NEAR event listener (src/src/listener.rs): the polling     *)
(* loop of NearEventListener::start_polling, the block-error classifier    *)
(* handle_block_error, the transaction scan, the log extraction and the    *)
(* event parser, run against a NEAR node that is modelled as the           *)
(* environment (a chain that grows, with heights that may be skipped).     *)
(***************************************************************************)
EXTENDS Integers, Naturals, Sequences, FiniteSets, TLC

\* ------------------------------------------------------------------ bounds
MaxHeight == 3        \* highest block height of the modelled chain
MaxChunks == 2        \* most chunks in one block
MaxLogs == 2          \* most log lines of one outcome, extract_logs alone
MaxReceipts == 2      \* most receipt outcomes of one response, extract_logs alone
MaxMembers == 5       \* most members of a JSON object or array in a log line

\* ------------------------------------------------------- program constants
SettleDelay == 2      \* sleep after a successful block fetch
IterationDelay == 2   \* sleep at the end of every iteration
BackoffDelay == 5     \* sleep after a server status error

\* --------------------------------------------------------------- JSON text
\* A JSON text as serde_json sees it: kind is "malformed" for a text that is
\* not JSON, else the kind of the top-level value; members are the members
\* of an object (or the items of an array, with key "").
JStr(s) == [kind |-> "string", v |-> s]
JNum(s) == [kind |-> "number", v |-> s]
JArr(s) == [kind |-> "array", v |-> s]
JObjV(s) == [kind |-> "object", v |-> s]
Member(k, val) == [key |-> k, val |-> val]
JObject(ms) == [kind |-> "object", members |-> ms]
JArray(ms) == [kind |-> "array", members |-> ms]
JMalformed == [kind |-> "malformed", members |-> <<>>]
JNothing == [kind |-> "empty", members |-> <<>>]

\* A log line: the leading pieces of text, then the JSON text that follows.
LogLine(head, payload) == [head |-> head, payload |-> payload]

EVENT_PREFIX == "EVENT_JSON:"

\* models::EventLog
EventLog(standard, version, event, data) ==
    [standard |-> standard, version |-> version, event |-> event, data |-> data]

NoEvent == EventLog("", "", "", JStr(""))

Ok(e) == [ok |-> TRUE, err |-> "", event |-> e]
Err(kind) == [ok |-> FALSE, err |-> kind, event |-> NoEvent]

\* The members of ms with key k, in order.
RECURSIVE MembersNamed(_, _)
MembersNamed(ms, k) ==
    IF ms = <<>> THEN <<>>
    ELSE IF Head(ms).key = k THEN <<Head(ms).val>> \o MembersNamed(Tail(ms), k)
         ELSE MembersNamed(Tail(ms), k)

\* A reading of the JSON text that asks only for the four keys to be there.
DeserializeEventLog_Untyped(json) ==
    IF json.kind = "object" THEN
        LET st == MembersNamed(json.members, "standard")
            ve == MembersNamed(json.members, "version")
            ev == MembersNamed(json.members, "event")
            da == MembersNamed(json.members, "data")
        IN  IF Len(st) >= 1 /\ Len(ve) >= 1 /\ Len(ev) >= 1 /\ Len(da) >= 1
            THEN Ok(EventLog(st[1].v, ve[1].v, ev[1].v, da[1]))
            ELSE Err("JsonError")
    ELSE Err("JsonError")

\* serde_json::from_str::<EventLog>: the derived Deserialize of a struct
\* with the fields standard, version, event (String) and data (Value).
\* A map is read by key (unknown keys ignored, a repeated key or a missing
\* key is an error), a sequence is read by position.
DeserializeEventLog(json) ==
    IF json.kind = "object" THEN
        LET st == MembersNamed(json.members, "standard")
            ve == MembersNamed(json.members, "version")
            ev == MembersNamed(json.members, "event")
            da == MembersNamed(json.members, "data")
        IN  IF /\ Len(st) = 1 /\ Len(ve) = 1 /\ Len(ev) = 1 /\ Len(da) = 1
               /\ st[1].kind = "string" /\ ve[1].kind = "string"
               /\ ev[1].kind = "string"
            THEN Ok(EventLog(st[1].v, ve[1].v, ev[1].v, da[1]))
            ELSE Err("JsonError")
    ELSE IF json.kind = "array" THEN
        LET ms == json.members
        IN  IF /\ Len(ms) = 4
               /\ ms[1].val.kind = "string" /\ ms[2].val.kind = "string"
               /\ ms[3].val.kind = "string"
            THEN Ok(EventLog(ms[1].val.v, ms[2].val.v, ms[3].val.v, ms[4].val))
            ELSE Err("JsonError")
    ELSE Err("JsonError")

\* str::starts_with("EVENT_JSON:")
StartsWithPrefix(log) == Len(log.head) >= 1 /\ log.head[1] = EVENT_PREFIX

\* serde_json skips white space around the value; any other text before it
\* makes the input malformed.
RECURSIVE AllBlank(_)
AllBlank(pieces) ==
    \/ pieces = <<>>
    \/ Head(pieces) = " " /\ AllBlank(Tail(pieces))

\* A process_log that decodes the JSON text before it looks at the prefix.
process_log_JsonFirst(log) ==
    LET json_str == LogLine(IF StartsWithPrefix(log) THEN Tail(log.head) ELSE log.head,
                            log.payload)
        decoded == IF AllBlank(json_str.head)
                   THEN DeserializeEventLog(json_str.payload)
                   ELSE Err("JsonError")
    IN  IF ~decoded.ok THEN decoded
        ELSE IF ~StartsWithPrefix(log) THEN Err("InvalidEventFormat")
        ELSE decoded

\* NearEventListener::process_log
process_log(log) ==
    IF ~StartsWithPrefix(log) THEN Err("InvalidEventFormat")
    ELSE LET json_str == LogLine(Tail(log.head), log.payload)
         IN  IF AllBlank(json_str.head)
             THEN DeserializeEventLog(json_str.payload)
             ELSE Err("JsonError")

\* ------------------------------------------------- the node's data (inputs)
EventA == JObject(<<Member("standard", JStr("nep171")), Member("version", JStr("1.0.0")),
                    Member("event", JStr("set_greeting")),
                    Member("data", JArr("[{greeting}]"))>>)
EventB == JObject(<<Member("standard", JStr("nep171")), Member("version", JStr("1.0.0")),
                    Member("event", JStr("nft_mint")),
                    Member("data", JObjV("{token_ids}"))>>)

LineEventA == LogLine(<<EVENT_PREFIX>>, EventA)
LineEventB == LogLine(<<EVENT_PREFIX>>, EventB)
LinePlain == LogLine(<<"Invalid log format">>, JNothing)
LineBadJson == LogLine(<<EVENT_PREFIX>>, JMalformed)

\* RpcTransactionResponse.final_execution_outcome: None, or one of the two
\* variants of FinalExecutionOutcomeViewEnum.
Response(kind, tx_logs, receipts) ==
    [final_execution_outcome |-> kind, transaction_logs |-> tx_logs,
     receipts_logs |-> receipts]

Responses ==
    { Response("None", <<>>, <<>>),
      Response("FinalExecutionOutcomeWithReceipt", <<LineEventA>>, <<>>),
      Response("FinalExecutionOutcome", <<>>, <<>>),
      Response("FinalExecutionOutcome", <<>>, << <<LineEventA>> >>),
      Response("FinalExecutionOutcome", <<LinePlain>>, << <<>>, <<LineBadJson>> >>),
      Response("FinalExecutionOutcome", <<LinePlain>>, << <<LineEventA>> >>),
      Response("FinalExecutionOutcome", <<>>, << <<LineEventA, LineEventB>> >>),
      Response("FinalExecutionOutcome", <<LineEventB>>,
               << <<LineBadJson>>, <<LineEventA, LinePlain>> >>) }

RECURSIVE Flatten(_)
Flatten(ss) == IF ss = <<>> THEN <<>> ELSE Head(ss) \o Flatten(Tail(ss))

\* Mutant of extract_logs: a response with no outcome yields a line.
extract_logs_LineForNoOutcome(response) ==
    IF response.final_execution_outcome = "FinalExecutionOutcome"
    THEN response.transaction_logs \o Flatten(response.receipts_logs)
    ELSE IF response.final_execution_outcome = "None" THEN <<LineEventA>>
    ELSE <<>>

\* Mutant of extract_logs: the receipts' lines come before the
\* transaction's.
extract_logs_ReceiptsFirst(response) ==
    IF response.final_execution_outcome = "FinalExecutionOutcome"
    THEN Flatten(response.receipts_logs) \o response.transaction_logs
    ELSE <<>>

\* NearEventListener::extract_logs
extract_logs(response) ==
    IF response.final_execution_outcome = "FinalExecutionOutcome"
    THEN response.transaction_logs \o Flatten(response.receipts_logs)
    ELSE <<>>

\* Transactions (SignedTransactionView) and actions (ActionView).
FunctionCall(m) == [kind |-> "FunctionCall", method_name |-> m]
Transfer == [kind |-> "Transfer", method_name |-> ""]
Transaction(hash, signer, receiver, actions) ==
    [hash |-> hash, signer_id |-> signer, receiver_id |-> receiver,
     actions |-> actions]

ConfiguredAccount == "app.near"
ConfiguredMethod == "set_greeting"

Tx1 == Transaction(1, "alice.near", "app.near", <<FunctionCall("set_greeting")>>)
Tx2 == Transaction(2, "bob.near", "other.near", <<FunctionCall("set_greeting")>>)
Tx3 == Transaction(3, "bob.near", "app.near", <<Transfer, FunctionCall("get_greeting")>>)
Tx4 == Transaction(4, "carol.near", "app.near",
                   <<Transfer, FunctionCall("get_greeting"), FunctionCall("set_greeting")>>)

\* The chunks the node serves, by chunk hash.
ChunkHashes == {"ck_empty", "ck_other", "ck_match", "ck_late"}
ChunkOf(chunk_hash) ==
    CASE chunk_hash = "ck_empty" -> <<>>
      [] chunk_hash = "ck_other" -> <<Tx2, Tx3>>
      [] chunk_hash = "ck_match" -> <<Tx1, Tx4>>
      [] chunk_hash = "ck_late" -> <<Tx3, Tx2, Tx4, Tx1>>

ChunkLists == UNION { [1..k -> ChunkHashes] : k \in 0..MaxChunks }

\* CryptoHash::to_string and CryptoHash::from_str (base58 text of a hash).
HashValues == {1, 2, 3, 4}
HashToString(h) ==
    CASE h = 1 -> "hash1" [] h = 2 -> "hash2" [] h = 3 -> "hash3" [] h = 4 -> "hash4"
HashFromStr(s) ==
    IF \E h \in HashValues : HashToString(h) = s
    THEN [ok |-> TRUE, hash |-> CHOOSE h \in HashValues : HashToString(h) = s]
    ELSE [ok |-> FALSE, hash |-> 0]

NoMatch == [some |-> FALSE, tx_hash |-> "", signer |-> ""]
Match(tx) == [some |-> TRUE, tx_hash |-> HashToString(tx.hash), signer |-> tx.signer_id]

\* listener.rs 177-190: some action is a function call of the method.
HasMethodCall(actions, method) ==
    \E i \in 1..Len(actions) :
        actions[i].kind = "FunctionCall" /\ actions[i].method_name = method

\* Mutant of FindInChunk: the last transaction of the chunk that matches.
RECURSIVE FindInChunk_Last(_, _, _)
FindInChunk_Last(transactions, account, method) ==
    IF transactions = <<>> THEN NoMatch
    ELSE LET later == FindInChunk_Last(Tail(transactions), account, method)
         IN  IF later.some THEN later
             ELSE IF /\ Head(transactions).receiver_id = account
                     /\ HasMethodCall(Head(transactions).actions, method)
                  THEN Match(Head(transactions))
                  ELSE NoMatch

\* Mutant of FindInChunk: the receiver is not looked at.
RECURSIVE FindInChunk_AnyReceiver(_, _, _)
FindInChunk_AnyReceiver(transactions, account, method) ==
    IF transactions = <<>> THEN NoMatch
    ELSE IF HasMethodCall(Head(transactions).actions, method)
         THEN Match(Head(transactions))
         ELSE FindInChunk_AnyReceiver(Tail(transactions), account, method)

\* listener.rs 175-192: the first transaction of the chunk that matches.
RECURSIVE FindInChunk(_, _, _)
FindInChunk(transactions, account, method) ==
    IF transactions = <<>> THEN NoMatch
    ELSE IF /\ Head(transactions).receiver_id = account
            /\ HasMethodCall(Head(transactions).actions, method)
         THEN Match(Head(transactions))
         ELSE FindInChunk(Tail(transactions), account, method)

\* ------------------------------------------------------------------ state
VARIABLES
    account_id,            \* NearEventListener.account_id
    method_name,           \* NearEventListener.method_name
    last_processed_block,  \* NearEventListener.last_processed_block (the cursor)
    pc,                    \* position of start_polling
    block,                 \* the BlockView of this iteration
    chunk_idx,             \* index of the next chunk of block.chunks to fetch
    found,                 \* result of find_transaction_in_block
    tx_request,            \* the last RpcTransactionStatusRequest sent
    response,              \* the RpcTransactionResponse of this iteration
    logs,                  \* the Vec<String> returned by get_logs
    result,                \* what start has returned ("pending" while it runs)
    head,                  \* the node: highest height the chain has reached
    missing,               \* the node: heights at most head that hold no block
    start_height,          \* history: the cursor the listener was built with
    block_reference,       \* history: the reference of the last block request
    prev_reference,        \* history: the reference of the request before it
    outcome,               \* history: how this iteration ended ("pending" before)
    fetch_error,           \* history: the error of the last block request
    prev_fetch_error,      \* history: the error of the block request before it
    cursor_before,         \* history: the cursor when the block was requested
    calls,                 \* history: the RPC calls of this iteration, in order
    dispatched,            \* history: the handler's invocations of this iteration
    slept,                 \* history: the sleeps since the last block request
    scanned,               \* history: heights of the blocks whose scan completed
    line,                  \* process_log alone: the log line given to it
    returned,                \* process_log alone: what it returned
    builder,               \* the NearEventListenerBuilder
    given,                 \* history: the last argument given to each setter
    built                  \* what NearEventListenerBuilder::build returned

vars == <<account_id, method_name, last_processed_block, pc, block, chunk_idx,
          found, tx_request, response, logs, result, head, missing,
          start_height, block_reference, prev_reference, outcome, fetch_error,
          prev_fetch_error, cursor_before, calls, dispatched, slept, scanned,
          line, returned, builder, given, built>>

listener == <<account_id, method_name, start_height>>
aside == <<line, returned, builder, given, built>>
node == <<head, missing>>
iteration == <<block, chunk_idx, found, tx_request, response, logs>>
request == <<block_reference, prev_reference, fetch_error, prev_fetch_error,
             cursor_before>>

\* JsonRpcError<RpcBlockError>
BlockError(variant, server, handler) ==
    [variant |-> variant, server |-> server, handler |-> handler]
UnknownBlockError == BlockError("ServerError", "HandlerError", "UnknownBlock")
NotSyncedYetError == BlockError("ServerError", "HandlerError", "NotSyncedYet")
StatusError == BlockError("ServerError", "ResponseStatusError", "")
InternalError == BlockError("ServerError", "InternalError", "")
TransportError == BlockError("TransportError", "", "")
NoBlockError == BlockError("", "", "")
BlockErrors ==
    {UnknownBlockError, NotSyncedYetError, StatusError, InternalError, TransportError}

\* JsonRpcError::handler_error: Some(handler error) or None ("").
handler_error(err) ==
    IF err.variant = "ServerError" /\ err.server = "HandlerError"
    THEN err.handler ELSE ""

\* Mutant of Verdict: a status error is taken for "unknown block".
Verdict_StatusAsUnknown(err) ==
    IF handler_error(err) = "UnknownBlock" THEN "unknown"
    ELSE IF handler_error(err) # "" THEN "fatal"
    ELSE IF err.variant = "ServerError" /\ err.server = "ResponseStatusError"
         THEN "unknown"
         ELSE "fatal"

\* Mutant of Verdict: every error without a handler error is retried.
Verdict_OtherAsStatus(err) ==
    IF handler_error(err) = "UnknownBlock" THEN "unknown"
    ELSE "status"

\* The verdict of handle_block_error on err.
Verdict(err) ==
    IF handler_error(err) = "UnknownBlock" THEN "unknown"
    ELSE IF handler_error(err) # "" THEN "fatal"
    ELSE IF err.variant = "ServerError" /\ err.server = "ResponseStatusError"
         THEN "status"
         ELSE "fatal"

NoBlock == [height |-> 0, chunks |-> <<>>]
NoReference == [kind |-> "None", height |-> 0]
NoRequest == [tx_hash |-> 0, sender_account_id |-> "", wait_until |-> ""]
NoResponse == Response("", <<>>, <<>>)

\* Heights the listener may be built with (last_processed_block of the builder).
StartHeights == 0..(MaxHeight - 1)

\* No call of process_log alone.
NotParsed == [ok |-> FALSE, err |-> "not called", event |-> NoEvent]
NoLine == LogLine(<<>>, JNothing)

\* NearEventListenerBuilder and the results of build.
Builder(rpc_url, account, method, height) ==
    [rpc_url |-> rpc_url, account_id |-> account, method_name |-> method,
     last_processed_block |-> height]
NearEventListener(client, account, method, height) ==
    [client |-> client, account_id |-> account, method_name |-> method,
     last_processed_block |-> height]
NoListener == NearEventListener("", "", "", 0)
NotBuilt == [ok |-> FALSE, err |-> "not called", field |-> "", listener |-> NoListener]
Built(l) == [ok |-> TRUE, err |-> "", field |-> "", listener |-> l]
MissingField(field) ==
    [ok |-> FALSE, err |-> "MissingField", field |-> field, listener |-> NoListener]
RpcUrls == {"http://rpc.testnet.near.org", "http://localhost:3030"}
\* The last argument given to a setter: <<>> when it was never called.
NeverCalled == <<>>
NeverGiven == [account_id |-> NeverCalled, method_name |-> NeverCalled,
               last_processed_block |-> NeverCalled]

\* Two builds that differ from NearEventListenerBuilder::build: one looks at
\* method_name first, one drops the height.
build_MethodNameFirst(b) ==
    IF b.method_name = "" THEN MissingField("method_name")
    ELSE IF b.account_id = "" THEN MissingField("account_id")
    ELSE Built(NearEventListener(b.rpc_url, b.account_id, b.method_name,
                                 b.last_processed_block))

build_DropsHeight(b) ==
    IF b.account_id = "" THEN MissingField("account_id")
    ELSE IF b.method_name = "" THEN MissingField("method_name")
    ELSE Built(NearEventListener(b.rpc_url, b.account_id, b.method_name, 0))

\* NearEventListenerBuilder::build
build(b) ==
    IF b.account_id = "" THEN MissingField("account_id")
    ELSE IF b.method_name = "" THEN MissingField("method_name")
    ELSE Built(NearEventListener(b.rpc_url, b.account_id, b.method_name,
                                 b.last_processed_block))

\* The loop before its first step, and the node at the start.
InitIteration ==
    /\ block = NoBlock
    /\ chunk_idx = 0
    /\ found = NoMatch
    /\ tx_request = NoRequest
    /\ response = NoResponse
    /\ logs = <<>>
    /\ result = "pending"
    /\ head = 1
    /\ missing = {}
    /\ block_reference = NoReference
    /\ prev_reference = NoReference
    /\ outcome = "pending"
    /\ fetch_error = NoBlockError
    /\ prev_fetch_error = NoBlockError
    /\ calls = <<>>
    /\ dispatched = <<>>
    /\ slept = <<>>
    /\ scanned = {}

\* The state after NearEventListenerBuilder::build and the call of start.
Init ==
    /\ account_id = ConfiguredAccount
    /\ method_name = ConfiguredMethod
    /\ start_height \in StartHeights
    /\ last_processed_block = start_height
    /\ cursor_before = start_height
    /\ pc = "fetch_block"
    /\ InitIteration
    /\ line = NoLine
    /\ returned = NotParsed
    /\ builder = Builder("http://rpc.testnet.near.org", account_id, method_name,
                         start_height)
    /\ built = build(builder)
    /\ given = [account_id |-> <<account_id>>, method_name |-> <<method_name>>,
                last_processed_block |-> <<start_height>>]

\* ------------------------------------------------------------------- node
Existing == {h \in 1..head : h \notin missing}

\* The chain reaches the next height and produces a block there.
ProduceBlock ==
    /\ head < MaxHeight
    /\ head' = head + 1
    /\ UNCHANGED missing
    /\ UNCHANGED <<listener, aside, last_processed_block, pc, iteration, result, request,
                   outcome, calls, dispatched, slept, scanned>>

\* The chain reaches the next height without a block (a skipped height).
SkipHeight ==
    /\ head < MaxHeight
    /\ head' = head + 1
    /\ missing' = missing \cup {head + 1}
    /\ UNCHANGED <<listener, aside, last_processed_block, pc, iteration, result, request,
                   outcome, calls, dispatched, slept, scanned>>

\* ------------------------------------------------------------- the loop
\* Mutant of specify_block_reference: the latest final block every time.
specify_block_reference_AlwaysFinal(cursor) ==
    [kind |-> "Finality", height |-> 0]

\* Mutant of specify_block_reference: the height of the cursor itself.
specify_block_reference_SameHeight(cursor) ==
    IF cursor = 0 THEN [kind |-> "Finality", height |-> 0]
    ELSE [kind |-> "Height", height |-> cursor]

\* NearEventListener::specify_block_reference
specify_block_reference(cursor) ==
    IF cursor = 0 THEN [kind |-> "Finality", height |-> 0]
    ELSE [kind |-> "Height", height |-> cursor + 1]

\* What every block request records.
SendBlockRequest ==
    /\ block_reference' = specify_block_reference(last_processed_block)
    /\ prev_reference' = block_reference
    /\ prev_fetch_error' = fetch_error
    /\ cursor_before' = last_processed_block
    /\ calls' = <<"block">>
    /\ dispatched' = <<>>
    /\ slept' = <<>>

\* listener.rs 96-101: the block request is answered with a block.
FetchBlockOk ==
    /\ pc = "fetch_block"
    /\ last_processed_block < MaxHeight
    /\ SendBlockRequest
    /\ \E h \in Existing, chunks \in ChunkLists :
          /\ \/ block_reference'.kind = "Finality"
             \/ h = block_reference'.height
          /\ block' = [height |-> h, chunks |-> chunks]
    /\ fetch_error' = NoBlockError
    /\ pc' = "settle"
    /\ outcome' = "pending"
    /\ chunk_idx' = 0
    /\ found' = NoMatch
    /\ tx_request' = NoRequest
    /\ response' = NoResponse
    /\ logs' = <<>>
    /\ UNCHANGED <<listener, aside, node, last_processed_block, result, scanned>>

\* Mutant of handle_block_error: "unknown block" leaves the cursor alone.
handle_block_error_NoCompensation(err) ==
    CASE Verdict(err) = "unknown" ->
            /\ last_processed_block' = last_processed_block
            /\ pc' = "sleep"
            /\ result' = result
      [] Verdict(err) = "status" ->
            /\ last_processed_block' = last_processed_block
            /\ pc' = "backoff"
            /\ result' = result
      [] OTHER ->
            /\ last_processed_block' = last_processed_block
            /\ pc' = "done"
            /\ result' = "RpcError"

\* Mutant of handle_block_error: "unknown block" sleeps as a status error
\* does.
handle_block_error_UnknownBacksOff(err) ==
    CASE Verdict(err) = "unknown" ->
            /\ last_processed_block' = last_processed_block + 1
            /\ pc' = "backoff"
            /\ result' = result
      [] Verdict(err) = "status" ->
            /\ last_processed_block' = last_processed_block
            /\ pc' = "backoff"
            /\ result' = result
      [] OTHER ->
            /\ last_processed_block' = last_processed_block
            /\ pc' = "done"
            /\ result' = "RpcError"

\* Mutant of handle_block_error: "unknown block" moves the cursor by two.
handle_block_error_SkipsTwo(err) ==
    CASE Verdict(err) = "unknown" ->
            /\ last_processed_block' = last_processed_block + 2
            /\ pc' = "sleep"
            /\ result' = result
      [] Verdict(err) = "status" ->
            /\ last_processed_block' = last_processed_block
            /\ pc' = "backoff"
            /\ result' = result
      [] OTHER ->
            /\ last_processed_block' = last_processed_block
            /\ pc' = "done"
            /\ result' = "RpcError"

\* NearEventListener::handle_block_error, up to its sleep.
handle_block_error(err) ==
    CASE Verdict(err) = "unknown" ->
            /\ last_processed_block' = last_processed_block + 1
            /\ pc' = "sleep"
            /\ result' = result
      [] Verdict(err) = "status" ->
            /\ last_processed_block' = last_processed_block
            /\ pc' = "backoff"
            /\ result' = result
      [] OTHER ->
            /\ last_processed_block' = last_processed_block
            /\ pc' = "done"
            /\ result' = "RpcError"

\* listener.rs 99, 129: the block request fails.  The node answers
\* "unknown block" only for a height that holds no block.
FetchBlockErr ==
    /\ pc = "fetch_block"
    /\ last_processed_block < MaxHeight
    /\ SendBlockRequest
    /\ \E err \in BlockErrors :
          /\ err = UnknownBlockError =>
                /\ block_reference'.kind = "Height"
                /\ block_reference'.height \notin Existing
          /\ handle_block_error(err)
          /\ fetch_error' = err
    /\ outcome' = "block_error"
    /\ block' = NoBlock
    /\ chunk_idx' = 0
    /\ found' = NoMatch
    /\ tx_request' = NoRequest
    /\ response' = NoResponse
    /\ logs' = <<>>
    /\ UNCHANGED <<listener, aside, node, scanned>>

\* listener.rs 278: the sleep after a server status error.
Backoff ==
    /\ pc = "backoff"
    /\ slept' = Append(slept, BackoffDelay)
    /\ pc' = "sleep"
    /\ UNCHANGED <<listener, aside, node, last_processed_block, iteration, result,
                   request, outcome, calls, dispatched, scanned>>

\* listener.rs 103: the sleep after a successful block fetch.
Settle ==
    /\ pc = "settle"
    /\ slept' = Append(slept, SettleDelay)
    /\ pc' = "scan"
    /\ chunk_idx' = 1
    /\ UNCHANGED <<listener, aside, node, last_processed_block, block, found, tx_request,
                   response, logs, result, request, outcome, calls, dispatched,
                   scanned>>

\* listener.rs 172-192: one chunk is fetched and searched.
FetchChunkOk ==
    /\ pc = "scan"
    /\ chunk_idx <= Len(block.chunks)
    /\ calls' = Append(calls, "chunk")
    /\ LET m == FindInChunk(ChunkOf(block.chunks[chunk_idx]), account_id, method_name)
       IN  IF m.some
           THEN /\ found' = m
                /\ pc' = "get_logs"
                /\ chunk_idx' = chunk_idx
                /\ scanned' = scanned \cup {block.height}
           ELSE /\ found' = found
                /\ pc' = pc
                /\ chunk_idx' = chunk_idx + 1
                /\ scanned' = scanned
    /\ UNCHANGED <<listener, aside, node, last_processed_block, block, tx_request,
                   response, logs, result, request, outcome, dispatched, slept>>

\* listener.rs 159-165, 174: a chunk request fails and start returns.
FetchChunkErr ==
    /\ pc = "scan"
    /\ chunk_idx <= Len(block.chunks)
    /\ calls' = Append(calls, "chunk")
    /\ pc' = "done"
    /\ result' = "RpcError"
    /\ outcome' = "chunk_error"
    /\ UNCHANGED <<listener, aside, node, last_processed_block, iteration, request,
                   dispatched, slept, scanned>>

\* listener.rs 194: no chunk holds a match.
ScanNoMatch ==
    /\ pc = "scan"
    /\ chunk_idx > Len(block.chunks)
    /\ found' = NoMatch
    /\ pc' = "advance"
    /\ scanned' = scanned \cup {block.height}
    /\ UNCHANGED <<listener, aside, node, last_processed_block, block, chunk_idx,
                   tx_request, response, logs, result, request, outcome, calls,
                   dispatched, slept>>

\* listener.rs 205-211: the request get_logs builds.
TransactionStatusRequest(hash, sender) ==
    [tx_hash |-> hash, sender_account_id |-> sender, wait_until |-> "None"]

\* listener.rs 197-221: the transaction status is fetched and its logs
\* extracted.
GetLogsOk ==
    /\ pc = "get_logs"
    /\ LET parsed == HashFromStr(found.tx_hash)
       IN  IF parsed.ok
           THEN /\ tx_request' = TransactionStatusRequest(parsed.hash, found.signer)
                /\ calls' = Append(calls, "tx")
                /\ \E r \in Responses :
                      /\ response' = r
                      /\ logs' = extract_logs(r)
                /\ pc' = "dispatch"
                /\ UNCHANGED <<result, outcome>>
           ELSE /\ pc' = "done"
                /\ result' = "InvalidEventFormat"
                /\ outcome' = "hash_error"
                /\ UNCHANGED <<tx_request, calls, response, logs>>
    /\ UNCHANGED <<listener, aside, node, last_processed_block, block, chunk_idx, found,
                   request, dispatched, slept, scanned>>

\* Mutant of GetLogsErr: the failure is swallowed and the block goes on
\* with no logs.
GetLogsErr_Swallowed ==
    /\ pc = "get_logs"
    /\ HashFromStr(found.tx_hash).ok
    /\ tx_request' = TransactionStatusRequest(HashFromStr(found.tx_hash).hash,
                                              found.signer)
    /\ calls' = Append(calls, "tx")
    /\ pc' = "dispatch"
    /\ logs' = <<>>
    /\ outcome' = "tx_error"
    /\ UNCHANGED <<listener, aside, node, last_processed_block, block, chunk_idx, found,
                   response, result, request, dispatched, slept, scanned>>

\* listener.rs 213-217: the transaction status request fails and start
\* returns.
GetLogsErr ==
    /\ pc = "get_logs"
    /\ HashFromStr(found.tx_hash).ok
    /\ tx_request' = TransactionStatusRequest(HashFromStr(found.tx_hash).hash,
                                              found.signer)
    /\ calls' = Append(calls, "tx")
    /\ pc' = "done"
    /\ result' = "RpcError"
    /\ outcome' = "tx_error"
    /\ UNCHANGED <<listener, aside, node, last_processed_block, block, chunk_idx, found,
                   response, logs, request, dispatched, slept, scanned>>

\* The lines of logs that the single name `log` of listener.rs 119 may
\* denote.  The loop over logs is commented out (listener.rs 118, 123), so
\* one line at most is processed; which one is not fixed by the source.
LogChoices(ls) == 1..Len(ls)

\* listener.rs 116-123: process_log on one line, the handler on its event.
Dispatch ==
    /\ pc = "dispatch"
    /\ IF LogChoices(logs) = {}
       THEN dispatched' = dispatched
       ELSE \E i \in LogChoices(logs) :
               LET parsed == process_log(logs[i])
               IN  dispatched' =
                      IF parsed.ok
                      THEN Append(dispatched, [line |-> i, event |-> parsed.event])
                      ELSE dispatched
    /\ pc' = "advance"
    /\ UNCHANGED <<listener, aside, node, last_processed_block, iteration, result,
                   request, outcome, calls, slept, scanned>>

\* Mutant of AdvanceCursor: the cursor is not saved.
AdvanceCursor_Forgotten ==
    /\ pc = "advance"
    /\ last_processed_block' = last_processed_block
    /\ outcome' = "ok"
    /\ pc' = "sleep"
    /\ UNCHANGED <<listener, aside, node, iteration, result, request, calls, dispatched,
                   slept, scanned>>

\* Mutant of AdvanceCursor: start returns Ok(()) after the first block.
AdvanceCursor_ReturnsOk ==
    /\ pc = "advance"
    /\ last_processed_block' = block.height
    /\ outcome' = "ok"
    /\ pc' = "done"
    /\ result' = "Ok"
    /\ UNCHANGED <<listener, aside, node, iteration, request, calls, dispatched,
                   slept, scanned>>

\* Mutant of AdvanceCursor: the cursor stops one short of the block.
AdvanceCursor_StepsBack ==
    /\ pc = "advance"
    /\ last_processed_block' = block.height - 1
    /\ outcome' = "ok"
    /\ pc' = "sleep"
    /\ UNCHANGED <<listener, aside, node, iteration, result, request, calls, dispatched,
                   slept, scanned>>

\* listener.rs 126: the cursor becomes the height of the block.
AdvanceCursor ==
    /\ pc = "advance"
    /\ last_processed_block' = block.height
    /\ outcome' = "ok"
    /\ pc' = "sleep"
    /\ UNCHANGED <<listener, aside, node, iteration, result, request, calls, dispatched,
                   slept, scanned>>

\* listener.rs 132: the sleep that ends every iteration.
Sleep ==
    /\ pc = "sleep"
    /\ slept' = Append(slept, IterationDelay)
    /\ pc' = "fetch_block"
    /\ UNCHANGED <<listener, aside, node, last_processed_block, iteration, result,
                   request, outcome, calls, dispatched, scanned>>

Next ==
    \/ ProduceBlock
    \/ SkipHeight
    \/ FetchBlockOk
    \/ FetchBlockErr
    \/ Backoff
    \/ Settle
    \/ FetchChunkOk
    \/ FetchChunkErr
    \/ ScanNoMatch
    \/ GetLogsOk
    \/ GetLogsErr
    \/ Dispatch
    \/ AdvanceCursor
    \/ Sleep

Spec == Init /\ [][Next]_vars

\* ------------------------------------------------------ process_log alone
\* The log lines given to process_log: a head with or without the prefix,
\* then a JSON text of at most MaxMembers members.
Heads ==
    { <<>>, <<EVENT_PREFIX>>, <<EVENT_PREFIX, " ">>, <<EVENT_PREFIX, "x">>,
      <<" ", EVENT_PREFIX>>, <<"Invalid log format">> }

MemberChoices ==
    { Member("standard", JStr("nep171")),
      Member("version", JStr("1.0.0")), Member("version", JNum("1.0")),
      Member("event", JStr("nft_mint")),
      Member("data", JObjV("{token_ids}")), Member("data", JNum("42")),
      Member("extra", JStr("more")) }

ItemChoices == { Member("", JStr("nep171")), Member("", JNum("42")) }

BoundedSeqs(S, n) == UNION { [1..k -> S] : k \in 0..n }

Payloads ==
    {JMalformed, JNothing}
        \cup { JObject(ms) : ms \in BoundedSeqs(MemberChoices, MaxMembers) }
        \cup { JArray(ms) : ms \in BoundedSeqs(ItemChoices, MaxMembers) }

\* Every payload after the bare prefix, and every head before a few payloads.
HeadPayloads == {JMalformed, JNothing, EventA, EventB, JObject(<<>>), JArray(<<>>)}

InputLines ==
    { LogLine(<<EVENT_PREFIX>>, p) : p \in Payloads }
        \cup { LogLine(h, p) : h \in Heads, p \in HeadPayloads }

ParseInit ==
    /\ account_id = ConfiguredAccount
    /\ method_name = ConfiguredMethod
    /\ start_height = 0
    /\ last_processed_block = 0
    /\ cursor_before = 0
    /\ pc = "process_log"
    /\ InitIteration
    /\ line \in InputLines
    /\ returned = NotParsed
    /\ builder = Builder("", "", "", 0)
    /\ given = NeverGiven
    /\ built = NotBuilt

\* A call of NearEventListener::process_log (listener.rs 246-261).
ParseLine ==
    /\ pc = "process_log"
    /\ returned' = process_log(line)
    /\ pc' = "returned"
    /\ UNCHANGED <<listener, node, last_processed_block, iteration, result,
                   request, outcome, calls, dispatched, slept, scanned, line,
                   builder, given, built>>

ParseSpec == ParseInit /\ [][ParseLine]_vars

\* ------------------------------------------------------ the builder alone
AccountArgs == {"", ConfiguredAccount, "other.near"}
MethodArgs == {"", ConfiguredMethod, "get_greeting"}

\* NearEventListener::builder(rpc_url): no listener yet.
BuilderInit ==
    /\ account_id = NoListener.account_id
    /\ method_name = NoListener.method_name
    /\ start_height = 0
    /\ last_processed_block = NoListener.last_processed_block
    /\ cursor_before = 0
    /\ pc = "builder"
    /\ InitIteration
    /\ line = NoLine
    /\ returned = NotParsed
    /\ \E url \in RpcUrls : builder = Builder(url, "", "", 0)
    /\ given = NeverGiven
    /\ built = NotBuilt

\* NearEventListenerBuilder::account_id
SetAccountId ==
    /\ pc = "builder"
    /\ \E a \in AccountArgs :
          /\ builder' = [builder EXCEPT !.account_id = a]
          /\ given' = [given EXCEPT !.account_id = <<a>>]
    /\ UNCHANGED <<listener, node, last_processed_block, pc, iteration, result,
                   request, outcome, calls, dispatched, slept, scanned, line,
                   returned, built>>

\* NearEventListenerBuilder::method_name
SetMethodName ==
    /\ pc = "builder"
    /\ \E m \in MethodArgs :
          /\ builder' = [builder EXCEPT !.method_name = m]
          /\ given' = [given EXCEPT !.method_name = <<m>>]
    /\ UNCHANGED <<listener, node, last_processed_block, pc, iteration, result,
                   request, outcome, calls, dispatched, slept, scanned, line,
                   returned, built>>

\* NearEventListenerBuilder::last_processed_block
SetLastProcessedBlock ==
    /\ pc = "builder"
    /\ \E h \in StartHeights :
          /\ builder' = [builder EXCEPT !.last_processed_block = h]
          /\ given' = [given EXCEPT !.last_processed_block = <<h>>]
    /\ UNCHANGED <<listener, node, last_processed_block, pc, iteration, result,
                   request, outcome, calls, dispatched, slept, scanned, line,
                   returned, built>>

\* NearEventListenerBuilder::build: consumes the builder; the listener's
\* fields exist only when it returns Ok.
Build ==
    /\ pc = "builder"
    /\ pc' = "built"
    /\ built' = build(builder)
    /\ IF built'.ok
       THEN /\ account_id' = built'.listener.account_id
            /\ method_name' = built'.listener.method_name
            /\ last_processed_block' = built'.listener.last_processed_block
            /\ start_height' = built'.listener.last_processed_block
       ELSE UNCHANGED <<listener, last_processed_block>>
    /\ UNCHANGED <<node, iteration, result, request, outcome, calls, dispatched,
                   slept, scanned, line, returned, builder, given>>

BuilderNext == SetAccountId \/ SetMethodName \/ SetLastProcessedBlock \/ Build
BuilderSpec == BuilderInit /\ [][BuilderNext]_vars

\* ----------------------------------------------------- extract_logs alone
\* Responses of every kind, with at most MaxLogs lines in an outcome and at
\* most MaxReceipts receipt outcomes.
OutcomeKinds == {"None", "FinalExecutionOutcome", "FinalExecutionOutcomeWithReceipt"}
OutcomeLogs == UNION { [1..k -> {LineEventA, LinePlain}] : k \in 0..MaxLogs }
ReceiptsLogs == UNION { [1..k -> OutcomeLogs] : k \in 0..MaxReceipts }
GeneratedResponses ==
    { Response(kind, tx_logs, receipts) :
        kind \in OutcomeKinds, tx_logs \in OutcomeLogs, receipts \in ReceiptsLogs }

ExtractInit ==
    /\ account_id = ConfiguredAccount
    /\ method_name = ConfiguredMethod
    /\ start_height = 0
    /\ last_processed_block = 0
    /\ cursor_before = 0
    /\ pc = "extract_logs"
    /\ block = NoBlock
    /\ chunk_idx = 0
    /\ found = NoMatch
    /\ tx_request = NoRequest
    /\ response \in GeneratedResponses
    /\ logs = <<>>
    /\ result = "pending"
    /\ head = 1
    /\ missing = {}
    /\ block_reference = NoReference
    /\ prev_reference = NoReference
    /\ outcome = "pending"
    /\ fetch_error = NoBlockError
    /\ prev_fetch_error = NoBlockError
    /\ calls = <<>>
    /\ dispatched = <<>>
    /\ slept = <<>>
    /\ scanned = {}
    /\ line = NoLine
    /\ returned = NotParsed
    /\ builder = Builder("", "", "", 0)
    /\ given = NeverGiven
    /\ built = NotBuilt

\* A call of NearEventListener::extract_logs (listener.rs 223-244).
ExtractLogs ==
    /\ pc = "extract_logs"
    /\ logs' = extract_logs(response)
    /\ pc' = "extracted"
    /\ UNCHANGED <<listener, aside, node, last_processed_block, block, chunk_idx,
                   found, tx_request, response, result, request, outcome, calls,
                   dispatched, slept, scanned>>

ExtractSpec == ExtractInit /\ [][ExtractLogs]_vars

\* The steps of start_polling (all of Next but the node's own steps).
Loop ==
    \/ FetchBlockOk \/ FetchBlockErr \/ Backoff \/ Settle
    \/ FetchChunkOk \/ FetchChunkErr \/ ScanNoMatch
    \/ GetLogsOk \/ GetLogsErr \/ Dispatch \/ AdvanceCursor \/ Sleep

\* The task is scheduled: every RPC call is answered, every sleep ends and
\* the handler returns, so the loop takes its next step.
LiveSpec == Init /\ [][Next]_vars /\ WF_vars(Loop)

\* ----------------------------------------------------------------- claims
\* The lines of ls that process_log accepts.
Parseable(ls) == {i \in 1..Len(ls) : process_log(ls[i]).ok}

\* The handler's invocations of this iteration for line i of logs.
InvocationsFor(i) == {k \in 1..Len(dispatched) : dispatched[k].line = i}

\* A matching transaction was found and its status call succeeded, and the
\* dispatch of the block is over.
MatchedAndDispatched == pc = "advance" /\ found.some

\* C1: for a block with a matching transaction whose status call succeeds,
\* the handler is invoked exactly once for every returned log line that
\* parses and never for a line that does not: n parseable lines give exactly
\* n invocations.
C1_HandlerOncePerParseableLine ==
    MatchedAndDispatched =>
        /\ Len(dispatched) = Cardinality(Parseable(logs))
        /\ \A i \in 1..Len(logs) :
              Cardinality(InvocationsFor(i)) = IF i \in Parseable(logs) THEN 1 ELSE 0

\* C2: within one iteration, two dispatched events are handed to the handler
\* in the order of their log lines.
C2_DispatchInLogOrder ==
    \A j, k \in 1..Len(dispatched) :
        j < k => dispatched[j].line < dispatched[k].line

\* C2's case: two events dispatched in one iteration.
C2_TwoDispatched == Len(dispatched) >= 2

\* How the claims name the errors of a block request.
IsUnknownBlock(err) ==
    err.variant = "ServerError" /\ err.server = "HandlerError"
        /\ err.handler = "UnknownBlock"
IsStatusError(err) ==
    err.variant = "ServerError" /\ err.server = "ResponseStatusError"
IsOtherBlockError(err) ==
    err # NoBlockError /\ ~IsUnknownBlock(err) /\ ~IsStatusError(err)

\* C3: after an iteration in which the block fetch, the scan and the log
\* retrieval all succeed, the cursor is the height of the fetched block.
C3_CursorIsFetchedHeight ==
    outcome = "ok" => last_processed_block = block.height

\* C3's case: a successful iteration with a match and an event, on a block
\* above the cursor it started from.
C3_SuccessfulIteration ==
    /\ outcome = "ok" /\ found.some /\ Len(dispatched) = 1
    /\ block.height > cursor_before

\* C4: after an "unknown block" failure the cursor is the previous cursor
\* plus 1, the handler was not invoked, no chunk or transaction-status call
\* was made, and the loop goes on without returning an error.
C4_UnknownBlockAdvancesByOne ==
    (outcome = "block_error" /\ IsUnknownBlock(fetch_error)) =>
        /\ last_processed_block = cursor_before + 1
        /\ dispatched = <<>>
        /\ calls = <<"block">>
        /\ result = "pending"
        /\ pc \in {"sleep", "fetch_block"}

\* C4's case: an "unknown block" failure has been handled and the loop is
\* about to request the next block.
C4_UnknownBlockHandled ==
    /\ outcome = "block_error" /\ IsUnknownBlock(fetch_error)
    /\ pc = "fetch_block" /\ last_processed_block = cursor_before + 1

\* C5: after a server status error the cursor is unchanged, the handler was
\* not invoked, no error is returned, the loop waits the 5-unit delay before
\* the next block request, and that request carries the same reference as
\* the failed one, however many such failures follow each other.
C5_StatusErrorRetriesSameReference ==
    /\ (outcome = "block_error" /\ IsStatusError(fetch_error)) =>
          /\ last_processed_block = cursor_before
          /\ dispatched = <<>>
          /\ result = "pending"
          /\ pc \in {"backoff", "sleep", "fetch_block"}
          /\ pc = "sleep" => slept = <<BackoffDelay>>
          /\ pc = "fetch_block" => slept = <<BackoffDelay, IterationDelay>>
    /\ IsStatusError(prev_fetch_error) => block_reference = prev_reference

\* C5's case: two status errors in a row on an explicit height, the second
\* handled and waited for.
C5_TwoStatusErrorsInARow ==
    /\ IsStatusError(prev_fetch_error) /\ IsStatusError(fetch_error)
    /\ outcome = "block_error" /\ pc = "fetch_block"
    /\ block_reference.kind = "Height"

\* C6: a block-fetch error that is neither "unknown block" nor a server
\* status error makes start return an RpcError with the cursor as it was
\* before the fetch, and nothing is called or dispatched afterwards.
C6_OtherBlockErrorIsFatal ==
    /\ [](  (outcome = "block_error" /\ IsOtherBlockError(fetch_error)) =>
              /\ pc = "done"
              /\ result = "RpcError"
              /\ last_processed_block = cursor_before
              /\ calls = <<"block">>
              /\ dispatched = <<>>)
    /\ [][pc = "done" =>
            UNCHANGED <<pc, result, last_processed_block, calls, dispatched>>]_vars

\* C6's case: start has returned after a "not synced yet" error of the block
\* fetch, and the chain has gone on.
C6_FatalBlockError ==
    /\ outcome = "block_error" /\ fetch_error = NotSyncedYetError
    /\ pc = "done" /\ head > 1

\* C7: a failure of a chunk fetch or of the transaction-status fetch makes
\* start return an RpcError at once: the cursor is not advanced to the
\* height of the block and the handler is not invoked for the block.
C7_ChunkOrStatusFailureIsFatal ==
    outcome \in {"chunk_error", "tx_error"} =>
        /\ pc = "done"
        /\ result = "RpcError"
        /\ last_processed_block = cursor_before
        /\ last_processed_block # block.height
        /\ dispatched = <<>>

\* C7's case: the transaction-status fetch of a match in the second chunk
\* has failed.
C7_StatusFetchFailed ==
    outcome = "tx_error" /\ pc = "done" /\ calls = <<"block", "chunk", "chunk", "tx">>

\* C8: the cursor starts at start_height, never decreases, and changes only
\* at the advance after a processed block and at the +1 after an "unknown
\* block" failure.
C8_CursorMonotonic ==
    /\ [](calls = <<>> => last_processed_block = start_height)
    /\ [][/\ last_processed_block' >= last_processed_block
          /\ last_processed_block' # last_processed_block =>
                \/ /\ pc = "advance" /\ outcome' = "ok"
                   /\ last_processed_block' = block.height
                \/ /\ pc = "fetch_block" /\ IsUnknownBlock(fetch_error')
                   /\ last_processed_block' = last_processed_block + 1]_vars

\* C8's case: the cursor has moved at both points in one run.
C8_CursorMovedBothWays ==
    /\ outcome = "block_error" /\ IsUnknownBlock(fetch_error)
    /\ scanned # {} /\ last_processed_block >= start_height + 2

\* C9: once start_height is nonzero no block is skipped: every block of the
\* chain above start_height and at most the cursor has been fetched and
\* scanned.
C9_NoBlockSkipped ==
    start_height # 0 =>
        \A h \in Existing :
            (start_height < h /\ h <= last_processed_block) => h \in scanned

\* C10: started with cursor H-1 (H >= 2), with block H holding a matching
\* transaction whose outcome carries a valid EVENT_JSON line and every RPC
\* call succeeding, the handler is invoked with the decoding of that line.
\* Stated at the end of the iteration on block H.
C10_EventOfMatchedBlockDelivered ==
    ( /\ start_height >= 1
      /\ prev_reference = NoReference
      /\ outcome = "ok"
      /\ block.height = start_height + 1
      /\ found.some
      /\ response.final_execution_outcome = "FinalExecutionOutcome" ) =>
        \A i \in Parseable(logs) :
            \E k \in 1..Len(dispatched) :
                dispatched[k].event = process_log(logs[i]).event

\* A fatal error: an unclassified block-fetch error, a chunk-fetch failure
\* or a transaction-status failure.
FatalError ==
    \/ outcome = "block_error" /\ IsOtherBlockError(fetch_error)
    \/ outcome \in {"chunk_error", "tx_error"}

\* C11: start never returns a success value and returns only on a fatal
\* error; as long as none occurs the loop always comes to another block
\* fetch.
C11_NoTerminalStateButFatalError ==
    /\ [](result # "Ok")
    /\ []((pc = "done" \/ result # "pending") =>
             (pc = "done" /\ result = "RpcError" /\ FatalError))
    /\ [](pc # "done" => <>(pc = "fetch_block" \/ pc = "done"))

\* C11's case: the loop has come round to its third block fetch with no
\* fatal error, after a processed block.
C11_LoopGoesOn ==
    /\ pc = "fetch_block" /\ result = "pending" /\ outcome = "ok"
    /\ prev_reference # NoReference

\* ---------------------------------------------------------------- C12
EventKeys == {"standard", "version", "event", "data"}
StringKeys == {"standard", "version", "event"}

\* The line starts with the prefix, and the text after it.
HasPrefix == line.head # <<>> /\ line.head[1] = EVENT_PREFIX
OnlyBlanksBeforeJson == \A i \in 2..Len(line.head) : line.head[i] = " "
Positions(k) ==
    { i \in 1..Len(line.payload.members) : line.payload.members[i].key = k }

\* The remainder is valid JSON that contains the four keys.
ValidJsonWithKeys ==
    /\ OnlyBlanksBeforeJson
    /\ line.payload.kind \in {"object", "array"}
    /\ \A k \in EventKeys : Positions(k) # {}

\* The remainder is a JSON object that has each of the four keys once, with
\* strings for standard, version and event.
TypedObject ==
    /\ OnlyBlanksBeforeJson
    /\ line.payload.kind = "object"
    /\ \A k \in EventKeys : Cardinality(Positions(k)) = 1
    /\ \A k \in StringKeys : \A i \in Positions(k) :
          line.payload.members[i].val.kind = "string"

\* The remainder is a JSON array of four items, the first three strings.
TypedArray ==
    /\ OnlyBlanksBeforeJson
    /\ line.payload.kind = "array"
    /\ Len(line.payload.members) = 4
    /\ \A i \in 1..3 : line.payload.members[i].val.kind = "string"

\* The returned EventLog carries the values of the four keys.
CarriesTheValues ==
    /\ line.payload.kind = "object" =>
          /\ \A i \in Positions("standard") :
                returned.event.standard = line.payload.members[i].val.v
          /\ \A i \in Positions("version") :
                returned.event.version = line.payload.members[i].val.v
          /\ \A i \in Positions("event") :
                returned.event.event = line.payload.members[i].val.v
          /\ \A i \in Positions("data") :
                returned.event.data = line.payload.members[i].val
    /\ line.payload.kind = "array" =>
          returned.event = EventLog(line.payload.members[1].val.v,
                                    line.payload.members[2].val.v,
                                    line.payload.members[3].val.v,
                                    line.payload.members[4].val)

C13_FailureClassifiedByPrefixFirst ==
    pc = "returned" =>
        /\ ~HasPrefix => (~returned.ok /\ returned.err = "InvalidEventFormat")
        /\ (HasPrefix /\ ~returned.ok) => returned.err = "JsonError"
        /\ (HasPrefix /\ (line.payload.kind \in {"malformed", "empty"}
                            \/ ~OnlyBlanksBeforeJson)) => ~returned.ok

\* A line without the prefix whose text is not JSON either.
C13_NoPrefixAndNoJson ==
    /\ pc = "returned" /\ ~HasPrefix
    /\ line.payload.kind = "malformed"
    /\ returned.err = "InvalidEventFormat"

\* ---------------------------------------------------------------- C14
\* C14: build fails with MissingField naming the first empty required
\* field, account_id before method_name: an empty account_id gives
\* MissingField("account_id") whether or not method_name is set, an empty
\* method_name with a non-empty account_id gives MissingField("method_name"),
\* and no listener is produced in either case.
C14_MissingFieldNamesFirstEmptyField ==
    pc = "built" =>
        /\ builder.account_id = "" =>
              /\ built = MissingField("account_id")
              /\ listener = <<NoListener.account_id, NoListener.method_name, 0>>
        /\ (builder.account_id # "" /\ builder.method_name = "") =>
              /\ built = MissingField("method_name")
              /\ listener = <<NoListener.account_id, NoListener.method_name, 0>>

\* Both fields empty, method_name having been set to the empty string.
C14_BothEmpty ==
    /\ pc = "built"
    /\ given.account_id = NeverCalled /\ given.method_name = <<"">>
    /\ built.field = "account_id"

\* ---------------------------------------------------------------- C15
\* C15: when account_id and method_name are both non-empty, build succeeds
\* and the listener holds exactly the account_id, method_name and start
\* height given to the builder, the last value set for each; the start
\* height is 0 when last_processed_block was never called.
C15_ListenerHoldsWhatWasGiven ==
    (pc = "built" /\ given.account_id \notin {<<"">>, NeverCalled}
                  /\ given.method_name \notin {<<"">>, NeverCalled}) =>
        /\ built.ok
        /\ account_id = given.account_id[1]
        /\ method_name = given.method_name[1]
        /\ last_processed_block =
              (IF given.last_processed_block = NeverCalled THEN 0
               ELSE given.last_processed_block[1])
        /\ built.listener = NearEventListener(builder.rpc_url, account_id,
                                              method_name, last_processed_block)

\* A listener built with a height that was set.
C15_BuiltWithHeight ==
    /\ pc = "built" /\ built.ok
    /\ account_id = "other.near"
    /\ given.last_processed_block # NeverCalled /\ last_processed_block > 0

\* ---------------------------------------------------------------- C16
\* C16: the block reference is a function of the cursor alone: cursor 0
\* resolves to the latest final block, cursor H > 0 resolves to the height
\* H + 1, however many times it is resolved, and resolving a reference
\* leaves the cursor unchanged.
C16_ReferenceIsFunctionOfCursor ==
    /\ [](block_reference # NoReference =>
            /\ cursor_before = 0 =>
                  block_reference = [kind |-> "Finality", height |-> 0]
            /\ cursor_before > 0 =>
                  block_reference = [kind |-> "Height", height |-> cursor_before + 1])
    /\ [][(pc = "fetch_block" /\ pc' = "settle") =>
             last_processed_block' = last_processed_block]_vars

\* The same cursor resolved twice in a row, to the same height.
C16_ResolvedTwice ==
    /\ block_reference.kind = "Height"
    /\ prev_reference = block_reference
    /\ pc = "settle"

\* ---------------------------------------------------------------- C17
\* C17: once the cursor is nonzero every block fetch requests the height
\* cursor + 1, the cursor changes by 0 or by +1, and the requested heights
\* never go down and never jump by more than 1 between two requests in a
\* row.
C17_OneHeightAtATime ==
    /\ []((block_reference # NoReference /\ cursor_before > 0) =>
            (block_reference.kind = "Height"
                /\ block_reference.height = cursor_before + 1))
    /\ [][last_processed_block > 0 =>
             last_processed_block' \in
                {last_processed_block, last_processed_block + 1}]_vars
    /\ []((prev_reference # NoReference /\ prev_reference.kind = "Height") =>
            (block_reference.kind = "Height"
                /\ block_reference.height - prev_reference.height \in {0, 1}))

\* Two requests in a row for heights one apart, the second one answered.
C17_SteppedByOne ==
    /\ prev_reference # NoReference /\ prev_reference.kind = "Height"
    /\ block_reference.height = prev_reference.height + 1
    /\ pc = "sleep" /\ outcome = "ok"
    /\ last_processed_block = cursor_before + 1

\* ---------------------------------------------------------------- C18
\* The transaction at place t of chunk c of the block, and whether it is
\* sent to the configured account with a call of the configured method.
TxAt(c, t) == ChunkOf(block.chunks[c])[t]
Places ==
    UNION { { <<c, t>> : t \in 1..Len(ChunkOf(block.chunks[c])) } :
            c \in 1..Len(block.chunks) }
Qualifies(tx) ==
    /\ tx.receiver_id = account_id
    /\ \E a \in 1..Len(tx.actions) :
          tx.actions[a] = FunctionCall(method_name)
Before(p, q) == p[1] < q[1] \/ (p[1] = q[1] /\ p[2] < q[2])
Count(seq, x) == Cardinality({ i \in 1..Len(seq) : seq[i] = x })

\* C18: the scan stops at the first match of the block (first chunk, first
\* qualifying transaction): it returns that transaction's hash and signer,
\* no chunk after the one that holds it is fetched, and per block the
\* events of one matching transaction at most are dispatched.
C18_ScanStopsAtFirstMatch ==
    /\ found.some =>
          \E q \in Places :
             /\ Qualifies(TxAt(q[1], q[2]))
             /\ \A p \in Places : Before(p, q) => ~Qualifies(TxAt(p[1], p[2]))
             /\ found.tx_hash = HashToString(TxAt(q[1], q[2]).hash)
             /\ found.signer = TxAt(q[1], q[2]).signer_id
             /\ Count(calls, "chunk") = q[1]
    /\ Count(calls, "tx") <= 1
    /\ tx_request # NoRequest =>
          /\ found.some
          /\ HashToString(tx_request.tx_hash) = found.tx_hash
          /\ tx_request.sender_account_id = found.signer
    /\ dispatched # <<>> => Count(calls, "tx") = 1

\* A block of two chunks that both hold matches: the match is the third
\* transaction of the first chunk, and the second chunk is not fetched.
C18_SecondChunkNotFetched ==
    /\ block.chunks = <<"ck_late", "ck_match">>
    /\ found.tx_hash = "hash4"
    /\ calls = <<"block", "chunk", "tx">>
    /\ dispatched # <<>>
    /\ pc = "sleep"

\* ---------------------------------------------------------------- C19
ScanComplete ==
    \/ pc \in {"get_logs", "dispatch", "advance"}
    \/ outcome = "ok" /\ pc \in {"sleep", "fetch_block"}

\* C19: the scan reports a match if and only if some transaction in some
\* chunk of the block is sent to account_id and has a function call of
\* method_name.  No match is not an error: the handler is not invoked, no
\* transaction status is requested, and the cursor advances to the height
\* of the block.
C19_MatchIffReceiverAndMethod ==
    /\ [](ScanComplete =>
            (found.some <=> \E q \in Places : Qualifies(TxAt(q[1], q[2]))))
    /\ []((ScanComplete /\ ~found.some) =>
            /\ dispatched = <<>>
            /\ Count(calls, "tx") = 0
            /\ result = "pending"
            /\ outcome = "ok" => last_processed_block = block.height)
    /\ [][(pc = "advance" /\ ~found.some /\ pc' # pc) =>
             (pc' = "sleep" /\ outcome' = "ok"
                /\ last_processed_block' = block.height)]_vars

\* A block whose transactions have the method with another receiver, or the
\* receiver without the method: no match, and the cursor has advanced.
C19_NearMissesOnly ==
    /\ block.chunks = <<"ck_other", "ck_empty">>
    /\ ~found.some
    /\ pc = "sleep" /\ outcome = "ok"
    /\ last_processed_block = block.height
    /\ calls = <<"block", "chunk", "chunk">>

\* ---------------------------------------------------------------- C20
\* The number of lines of the receipts listed before receipt r.
RECURSIVE LinesBefore(_)
LinesBefore(r) ==
    IF r <= 1 THEN 0
    ELSE LinesBefore(r - 1) + Len(response.receipts_logs[r - 1])

\* C20: for a fully resolved outcome extract_logs returns the transaction's
\* log lines followed by the log lines of each receipt, receipts in the
\* order listed and lines in their own order, nothing dropped, repeated or
\* moved; for the outcome that carries only a receipt reference it returns
\* the empty sequence.
C20_TransactionLogsThenReceiptLogs ==
    pc = "extracted" =>
        /\ response.final_execution_outcome = "FinalExecutionOutcome" =>
              /\ Len(logs) = Len(response.transaction_logs)
                                + LinesBefore(Len(response.receipts_logs) + 1)
              /\ \A i \in 1..Len(response.transaction_logs) :
                    logs[i] = response.transaction_logs[i]
              /\ \A r \in 1..Len(response.receipts_logs) :
                    \A j \in 1..Len(response.receipts_logs[r]) :
                       logs[Len(response.transaction_logs) + LinesBefore(r) + j]
                          = response.receipts_logs[r][j]
        /\ response.final_execution_outcome = "FinalExecutionOutcomeWithReceipt" =>
              logs = <<>>

\* Two transaction lines and two receipts, with different lines throughout.
C20_TwoReceiptsExtracted ==
    /\ pc = "extracted"
    /\ response = Response("FinalExecutionOutcome", <<LinePlain, LineEventA>>,
                           << <<LineEventA>>, <<LineEventA, LinePlain>> >>)
    /\ Len(logs) = 5

\* ---------------------------------------------------------------- C21
\* C21: every transaction status request the loop sends for a matched
\* transaction asks for the final outcome: it carries the "wait for final"
\* marker (TxExecutionStatus::Final).
C21_StatusRequestWaitsForFinal ==
    tx_request # NoRequest => tx_request.wait_until = "Final"

\* ---------------------------------------------------------------- C22
\* The steps a successful iteration may take from each position.
StepsInOrder ==
    \/ pc = "fetch_block" /\ pc' = "settle"
    \/ pc = "settle" /\ pc' = "scan"
    \/ pc = "scan" /\ pc' \in {"scan", "get_logs", "advance"}
    \/ pc = "get_logs" /\ pc' = "dispatch" /\ found.some
    \/ pc = "dispatch" /\ pc' = "advance"
    \/ pc = "advance" /\ pc' = "sleep"
    \/ pc = "sleep" /\ pc' = "fetch_block"

\* C22: a successful iteration takes its steps in the order block fetch,
\* settle delay, scan, log extraction (on a match only), dispatch, cursor
\* advance, inter-iteration delay, next block fetch.  The settle delay
\* comes before the first chunk fetch, and when the handler is invoked for
\* an event of the block at height H the cursor is still below H: the cursor
\* is set to H only after every event of the block has been dispatched.
C22_StepsOfAnIterationInOrder ==
    /\ [][(pc' # pc /\ pc' # "done" /\ outcome' # "block_error") =>
             StepsInOrder]_vars
    /\ [](Count(calls, "chunk") > 0 => (slept # <<>> /\ slept[1] = SettleDelay))
    /\ [](Count(calls, "tx") > 0 => (found.some /\ Count(calls, "chunk") > 0))
    /\ [][dispatched' # dispatched /\ dispatched' # <<>> =>
             /\ pc = "dispatch" /\ Count(calls, "tx") = 1
             /\ last_processed_block < block.height
             /\ last_processed_block' = last_processed_block]_vars
    /\ []((outcome = "ok" /\ pc = "sleep") =>
             /\ slept = <<SettleDelay>>
             /\ last_processed_block = block.height
             /\ \A i \in Parseable(logs) : InvocationsFor(i) # {})
    /\ []((outcome = "ok" /\ pc = "fetch_block") =>
             slept = <<SettleDelay, IterationDelay>>)

\* ---------------------------------------------------------------- C23
AfterUnknownBlock == outcome = "block_error" /\ IsUnknownBlock(fetch_error)

\* C23 as stated: after an "unknown block" failure the loop goes to the next
\* block fetch through no delay state at all.
C23_NoDelayAfterUnknownBlock ==
    AfterUnknownBlock => (pc = "fetch_block" /\ slept = <<>>)

\* C23 amended: after an "unknown block" failure the loop goes to the next
\* block fetch through the inter-iteration delay (listener.rs 132) and
\* through no other delay: no settle delay and no backoff.
C23_OnlyIterationDelayAfterUnknownBlock ==
    AfterUnknownBlock =>
        /\ pc \in {"sleep", "fetch_block"}
        /\ pc = "sleep" => slept = <<>>
        /\ pc = "fetch_block" => slept = <<IterationDelay>>
        /\ dispatched = <<>>

\* The loop is back at the block fetch after an "unknown block" failure.
C23_BackAtFetchAfterUnknownBlock ==
    /\ AfterUnknownBlock
    /\ pc = "fetch_block"
    /\ last_processed_block = cursor_before + 1

\* ---------------------------------------------------------------- C24
\* C24: in every reachable state the cursor is the height of the last block
\* fully processed: it is start_height, or the height of a block that was
\* fetched and whose scan and dispatch are over.
C24_CursorIsLastProcessedHeight ==
    \/ last_processed_block = start_height
    \/ /\ last_processed_block \in scanned
       /\ last_processed_block \in Existing

\* ---------------------------------------------------------------- C25
\* C25: within one run the heights of the blocks the loop processes are
\* strictly increasing: a block that is fetched lies above every block
\* scanned before it, so no height is scanned and dispatched twice and no
\* event of a lower block is delivered after an event of a higher block.
C25_ProcessedHeightsIncrease ==
    /\ pc \in {"settle", "scan"} => \A h \in scanned : h < block.height
    /\ pc \in {"get_logs", "dispatch", "advance"} =>
          /\ block.height \in scanned
          /\ \A h \in scanned : h <= block.height
    /\ (outcome = "ok" /\ pc \in {"sleep", "fetch_block"}) =>
          \A h \in scanned : h <= last_processed_block
    /\ \A h \in scanned : h >= 1

\* The second processed block of a run, with an event delivered.
C25_SecondBlockDispatched ==
    /\ pc = "advance"
    /\ dispatched # <<>>
    /\ Cardinality(scanned) >= 2

\* ---------------------------------------------------------------- C26
\* The transaction status call of this iteration succeeded with a response
\* that carries no final execution outcome.
NoOutcome == response.final_execution_outcome = "None"

\* C26: when the transaction status call for a matched transaction succeeds
\* but the response carries no final execution outcome, the extracted logs
\* are empty, the handler is not invoked for the block, no error is raised,
\* and the cursor advances to the height of the block.
C26_NoOutcomeIsAnEmptyBlock ==
    /\ [](NoOutcome =>
            /\ found.some
            /\ logs = <<>>
            /\ dispatched = <<>>
            /\ result = "pending"
            /\ pc \in {"dispatch", "advance", "sleep", "fetch_block"}
            /\ pc \in {"sleep", "fetch_block"} =>
                  (outcome = "ok" /\ last_processed_block = block.height))
    /\ [][(NoOutcome /\ pc' # pc) =>
             \/ pc = "dispatch" /\ pc' = "advance"
             \/ pc = "advance" /\ pc' = "sleep"
                   /\ last_processed_block' = block.height
             \/ pc = "sleep" /\ pc' = "fetch_block"
             \/ pc = "fetch_block"]_vars

\* The iteration of a matched block whose status response had no outcome.
C26_AdvancedPastNoOutcome ==
    /\ NoOutcome /\ found.some
    /\ pc = "sleep" /\ outcome = "ok"
    /\ last_processed_block = block.height
    /\ calls = <<"block", "chunk", "tx">>
====
